---- MODULE Spec2Model ----
(***************************************************************************)
(* A model of papers_cli.py: the reading tracker that flattens the raw     *)
(* catalog papers.yml into a working set, persists it in                   *)
(* papers_progress.yml and updates, lists and downloads papers by id.      *)
(*                                                                         *)
(* A paper is a function from its keys to their values (a Python dict);    *)
(* a key the dict does not carry is a key outside DOMAIN.  A command is    *)
(* one run of the program: it runs to completion, so each command is one   *)
(* action, taken when no run is under way; Exit ends the run.              *)
(***************************************************************************)
EXTENDS Integers, Sequences, FiniteSets, TLC

\* ------------------------------------------------------------------ bounds

\* The largest number of records of a flattened raw catalog in the command
\* runs.
MaxPapers == 2

\* The largest number of records of a flattened raw catalog in the
\* bootstrap runs.
MaxBootPapers == 3

\* The longest title, in characters, a download is checked on.
MaxTitleLen == 3

\* ------------------------------------------------------------- input sets

\* Python's None.
None == "None"

\* papers_progress.yml: absent (os.path.exists is False), or present with
\* the document last written to it.
NoFile == [exists |-> FALSE, doc |-> <<>>]
FileOf(doc) == [exists |-> TRUE, doc |-> doc]

\* A "related" value: a list of papers, or a value that is not a list
\* (isinstance(paper["related"], list) is False), such as a string.
RelatedList(items) == [list |-> TRUE, items |-> items]
NotAList == [list |-> FALSE, items |-> <<>>]

\* datetime.date.today().isoformat() of the run.
Today == "2024-06-01"

\* What --start_date and --finished_date may carry: nothing, the empty
\* string, or a date.
StartDates == {None, "", "2024-05-01"}
FinishedDates == {None, "2024-05-20"}

\* What --status may carry: the canonical values, the aliases, spellings in
\* other cases, and strings outside the closed set.
StatusInputs ==
  {"not started", "in progress", "read", "ns", "ip", "d",
   "NS", "IP", "D", "Read", "done"}

\* The titles of the catalogs: a title is the sequence of its characters.
Titles == {<<"A", " ", "b">>, <<" ", "e", ":", "-">>}

Links == {"http://x/1.pdf"}

\* The ids a raw catalog may supply itself.
PreIds == {2}

\* A key the entry does not carry.
Absent == "absent"
NoId == 0

\* ---------------------------------------------------------------- helpers

\* dict.get(key): None when the key is absent.
Get(d, k) == IF k \in DOMAIN d THEN d[k] ELSE None

\* Python truthiness of an optional string.
Truthy(v) == v # None /\ v # ""

\* a or b
Or(a, b) == IF Truthy(a) THEN a ELSE b

\* d with d[k] = v, the key added when absent.
Put(d, k, v) == [x \in DOMAIN d \cup {k} |-> IF x = k THEN v ELSE d[x]]

\* d without the key k.
Del(d, k) == [x \in DOMAIN d \ {k} |-> d[x]]

RECURSIVE Concat(_)
Concat(ss) == IF ss = <<>> THEN <<>> ELSE Head(ss) \o Concat(Tail(ss))

\* ------------------------------------------------------- sanitize_filename

Whitespace == {" ", "\t", "\n"}

\* \w under re.UNICODE: letters of any script, digits and the underscore.
\* The letters outside ASCII stand in the model as the one letter "é".
WordChars ==
  {"a", "b", "c", "d", "e", "f", "g", "h", "i", "j", "k", "l", "m",
   "n", "o", "p", "q", "r", "s", "t", "u", "v", "w", "x", "y", "z",
   "A", "B", "C", "D", "E", "F", "G", "H", "I", "J", "K", "L", "M",
   "N", "O", "P", "Q", "R", "S", "T", "U", "V", "W", "X", "Y", "Z",
   "0", "1", "2", "3", "4", "5", "6", "7", "8", "9", "_", "é"}

\* str.strip(): whitespace removed from both ends.
RECURSIVE LStrip(_)
LStrip(cs) ==
  IF cs # <<>> /\ Head(cs) \in Whitespace THEN LStrip(Tail(cs)) ELSE cs

RECURSIVE RStrip(_)
RStrip(cs) ==
  IF cs # <<>> /\ cs[Len(cs)] \in Whitespace
  THEN RStrip(SubSeq(cs, 1, Len(cs) - 1))
  ELSE cs

Strip(cs) == RStrip(LStrip(cs))

\* str.replace(" ", "_")
ReplaceSpaces(cs) == [i \in 1..Len(cs) |-> IF cs[i] = " " THEN "_" ELSE cs[i]]

\* re.sub(r'(?u)[^-\w.]', '', s)
IsSafeChar(c) == c = "-" \/ c = "." \/ c \in WordChars
RemoveUnsafe(cs) == SelectSeq(cs, IsSafeChar)

\* sanitize_filename without its strip(): the spaces at the ends become
\* underscores as the inner ones do.
sanitize_filename_NoStrip(cs) == RemoveUnsafe(ReplaceSpaces(cs))

sanitize_filename(cs) == RemoveUnsafe(ReplaceSpaces(Strip(cs)))

\* ---------------------------------------------------------- flatten_papers

\* flatten_papers appending the related papers before the paper they
\* belong to.
FlattenOne_RelatedFirst(paper) ==
  (IF "related" \in DOMAIN paper /\ paper["related"].list
   THEN [j \in 1..Len(paper["related"].items) |->
           Put(paper["related"].items[j], "parent_title", Get(paper, "title"))]
   ELSE <<>>)
  \o <<Del(paper, "related")>>

\* The records one top-level paper contributes: the paper without its
\* "related" key, then each related paper with parent_title attached.
FlattenOne(paper) ==
  <<Del(paper, "related")>> \o
  (IF "related" \in DOMAIN paper /\ paper["related"].list
   THEN [j \in 1..Len(paper["related"].items) |->
           Put(paper["related"].items[j], "parent_title", Get(paper, "title"))]
   ELSE <<>>)

flatten_papers(papers) == Concat([i \in 1..Len(papers) |-> FlattenOne(papers[i])])

\* -------------------------------------------------------------- assign_ids

\* assign_ids with enumerate() left at its default start of 0.
assign_ids_FromZero(papers) ==
  [idx \in 1..Len(papers) |->
     IF "id" \in DOMAIN papers[idx] THEN papers[idx]
     ELSE Put(papers[idx], "id", idx - 1)]

assign_ids(papers) ==
  [idx \in 1..Len(papers) |->
     IF "id" \in DOMAIN papers[idx] THEN papers[idx] ELSE Put(papers[idx], "id", idx)]

\* ------------------------------------------------------ progress bootstrap

DefaultProgress ==
  [status |-> "not started", start_date |-> None, finished_date |-> None]

\* The loop that attaches the default progress to every paper.
WithDefaultProgress(papers) ==
  [i \in 1..Len(papers) |-> Put(papers[i], "progress", DefaultProgress)]

\* The working set derived from the raw catalog.
Bootstrap(catalog) == WithDefaultProgress(assign_ids(flatten_papers(catalog)))

\* ------------------------------------------------- yaml.safe_dump/safe_load

\* safe_dump writes a mapping as its items in sorted key order.
KeyOrder ==
  <<"finished_date", "id", "link", "parent_title", "progress",
    "start_date", "status", "title">>

RECURSIVE SortedKeysFrom(_, _)
SortedKeysFrom(d, i) ==
  IF i > Len(KeyOrder) THEN <<>>
  ELSE (IF KeyOrder[i] \in DOMAIN d THEN <<KeyOrder[i]>> ELSE <<>>)
       \o SortedKeysFrom(d, i + 1)

DumpMap(d) ==
  LET ks == SortedKeysFrom(d, 1) IN [i \in 1..Len(ks) |-> <<ks[i], d[ks[i]]>>]

DumpPaper(p) ==
  LET ks == SortedKeysFrom(p, 1)
  IN  [i \in 1..Len(ks) |->
         <<ks[i], IF ks[i] = "progress" THEN DumpMap(p[ks[i]]) ELSE p[ks[i]]>>]

\* The document safe_dump(papers) writes.
Dump(papers) == [i \in 1..Len(papers) |-> DumpPaper(papers[i])]

ParseMap(items) ==
  [k \in {items[i][1] : i \in DOMAIN items} |->
     items[CHOOSE i \in DOMAIN items : items[i][1] = k][2]]

ParsePaper(items) ==
  [k \in {items[i][1] : i \in DOMAIN items} |->
     LET v == items[CHOOSE i \in DOMAIN items : items[i][1] = k][2]
     IN  IF k = "progress" THEN ParseMap(v) ELSE v]

\* The list safe_load(f) returns.
Parse(doc) == [i \in 1..Len(doc) |-> ParsePaper(doc[i])]

\* ------------------------------------------------------------- load_papers

\* load_papers deriving the working set from the raw catalog on every
\* call, the progress file there or not.
load_papers_AlwaysBootstraps(f, catalog) ==
  LET papers == Bootstrap(catalog)
  IN  [papers |-> papers, file |-> FileOf(Dump(papers)), saved |-> TRUE]

\* load_papers() on the store (file, catalog): the papers it returns, the
\* file it leaves, and whether it called save_papers.
load_papers(f, catalog) ==
  IF f.exists
  THEN [papers |-> Parse(f.doc), file |-> f, saved |-> FALSE]
  ELSE LET papers == Bootstrap(catalog)
       IN  [papers |-> papers, file |-> FileOf(Dump(papers)), saved |-> TRUE]

\* ------------------------------------------------------------ reset_papers

\* reset_papers resetting the status alone, the dates left as they were.
ResetProgress_StatusOnly(papers) ==
  [i \in 1..Len(papers) |->
     Put(papers[i], "progress",
         [papers[i].progress EXCEPT !.status = "not started"])]

\* The loop of reset_papers over the loaded papers.
ResetProgress(papers) ==
  [i \in 1..Len(papers) |-> Put(papers[i], "progress", DefaultProgress)]

\* --------------------------------------------------------- status aliases

\* str.lower() on the status strings of the model.
Lower(s) ==
  CASE s = "NS" -> "ns"
    [] s = "IP" -> "ip"
    [] s = "D" -> "d"
    [] s = "Read" -> "read"
    [] OTHER -> s

\* STATUS_ALIASES.get(key, default)
AliasGet(key, default) ==
  CASE key = "ns" -> "not started"
    [] key = "ip" -> "in progress"
    [] key = "d" -> "read"
    [] OTHER -> default

\* The alias looked up under the status as typed:
\* STATUS_ALIASES.get(status, status).lower()
ResolveStatus_CaseSensitive(status) == Lower(AliasGet(status, status))

\* STATUS_ALIASES.get(status.lower(), status).lower()
ResolveStatus(status) == Lower(AliasGet(Lower(status), status))

ValidStatuses == {"not started", "in progress", "read"}

\* -------------------------------------------------------- set_paper_status

\* The loop body with "in progress" leaving finished_date as it was.
ApplyStatus_KeepsFinished(progress, status, start_date, finished_date, today) ==
  LET p1 == [progress EXCEPT !.status = status]
  IN  CASE status = "in progress" ->
             [p1 EXCEPT !.start_date = Or(start_date, today)]
        [] status = "read" ->
             LET p2 == IF ~Truthy(Get(p1, "start_date"))
                       THEN [p1 EXCEPT !.start_date = Or(start_date, today)]
                       ELSE p1
             IN  [p2 EXCEPT !.finished_date = Or(finished_date, today)]
        [] status = "not started" ->
             [p1 EXCEPT !.start_date = None, !.finished_date = None]
        [] OTHER -> p1

\* The loop body with "read" storing a start-date override over a
\* start_date that is already set.
ApplyStatus_OverrideWins(progress, status, start_date, finished_date, today) ==
  LET p1 == [progress EXCEPT !.status = status]
  IN  CASE status = "in progress" ->
             [p1 EXCEPT !.start_date = Or(start_date, today),
                        !.finished_date = None]
        [] status = "read" ->
             LET p2 == IF Truthy(start_date)
                       THEN [p1 EXCEPT !.start_date = start_date]
                       ELSE IF ~Truthy(Get(p1, "start_date"))
                       THEN [p1 EXCEPT !.start_date = today]
                       ELSE p1
             IN  [p2 EXCEPT !.finished_date = Or(finished_date, today)]
        [] status = "not started" ->
             [p1 EXCEPT !.start_date = None, !.finished_date = None]
        [] OTHER -> p1

\* The loop body with "in progress" keeping a start_date that is already
\* set, as "read" does.
ApplyStatus_InProgressKeepsStart(progress, status, start_date, finished_date, today) ==
  LET p1 == [progress EXCEPT !.status = status]
  IN  CASE status = "in progress" ->
             LET p2 == IF ~Truthy(Get(p1, "start_date"))
                       THEN [p1 EXCEPT !.start_date = Or(start_date, today)]
                       ELSE p1
             IN  [p2 EXCEPT !.finished_date = None]
        [] status = "read" ->
             LET p2 == IF ~Truthy(Get(p1, "start_date"))
                       THEN [p1 EXCEPT !.start_date = Or(start_date, today)]
                       ELSE p1
             IN  [p2 EXCEPT !.finished_date = Or(finished_date, today)]
        [] status = "not started" ->
             [p1 EXCEPT !.start_date = None, !.finished_date = None]
        [] OTHER -> p1

\* The loop body with "read" storing start_date without looking at the
\* one already there.
ApplyStatus_ReadResetsStart(progress, status, start_date, finished_date, today) ==
  LET p1 == [progress EXCEPT !.status = status]
  IN  CASE status = "in progress" ->
             [p1 EXCEPT !.start_date = Or(start_date, today),
                        !.finished_date = None]
        [] status = "read" ->
             [p1 EXCEPT !.start_date = Or(start_date, today),
                        !.finished_date = Or(finished_date, today)]
        [] status = "not started" ->
             [p1 EXCEPT !.start_date = None, !.finished_date = None]
        [] OTHER -> p1

\* The body of the loop for the paper that matched, its status valid.
ApplyStatus(progress, status, start_date, finished_date, today) ==
  LET p1 == [progress EXCEPT !.status = status]
  IN  CASE status = "in progress" ->
             [p1 EXCEPT !.start_date = Or(start_date, today),
                        !.finished_date = None]
        [] status = "read" ->
             LET p2 == IF ~Truthy(Get(p1, "start_date"))
                       THEN [p1 EXCEPT !.start_date = Or(start_date, today)]
                       ELSE p1
             IN  [p2 EXCEPT !.finished_date = Or(finished_date, today)]
        [] status = "not started" ->
             [p1 EXCEPT !.start_date = None, !.finished_date = None]
        [] OTHER -> p1

\* The match taking --id as counted from 0.
Matches_OneBeyond(papers, paper_id) ==
  {i \in 1..Len(papers) : Get(papers[i], "id") = paper_id - 1}

\* The indexes of the papers whose id is paper_id.
Matches(papers, paper_id) ==
  {i \in 1..Len(papers) : Get(papers[i], "id") = paper_id}

\* The first of them: the one the loop reaches before its break.
FirstMatch(papers, paper_id) ==
  CHOOSE i \in Matches(papers, paper_id) :
    \A j \in Matches(papers, paper_id) : i <= j

\* The loop without the validation of the status.
SetStatusLoop_NoValidation(papers, paper_id, status, start_date, finished_date, today) ==
  IF Matches(papers, paper_id) = {}
  THEN [outcome |-> "not found", papers |-> papers]
  ELSE LET i == FirstMatch(papers, paper_id)
       IN  [outcome |-> "updated",
            papers |->
              [papers EXCEPT ![i].progress =
                 ApplyStatus(@, status, start_date, finished_date, today)]]

\* The loop with the status validated before the papers are searched.
SetStatusLoop_ValidateFirst(papers, paper_id, status, start_date, finished_date, today) ==
  IF status \notin ValidStatuses
  THEN [outcome |-> "invalid status", papers |-> papers]
  ELSE IF Matches(papers, paper_id) = {}
  THEN [outcome |-> "not found", papers |-> papers]
  ELSE LET i == FirstMatch(papers, paper_id)
       IN  [outcome |-> "updated",
            papers |->
              [papers EXCEPT ![i].progress =
                 ApplyStatus(@, status, start_date, finished_date, today)]]

\* The loop with the progress written outside the test of the id, to every
\* paper it visits up to the match.
SetStatusLoop_UpdatesEveryPaper(papers, paper_id, status, start_date, finished_date, today) ==
  IF Matches(papers, paper_id) = {}
  THEN [outcome |-> "not found", papers |-> papers]
  ELSE IF status \notin ValidStatuses
  THEN [outcome |-> "invalid status", papers |-> papers]
  ELSE LET i == FirstMatch(papers, paper_id)
       IN  [outcome |-> "updated",
            papers |->
              [j \in 1..Len(papers) |->
                 IF j <= i
                 THEN [papers[j] EXCEPT !.progress =
                         ApplyStatus(@, status, start_date, finished_date, today)]
                 ELSE papers[j]]]

\* The loop over the loaded papers: what is reported and the papers after it.
SetStatusLoop(papers, paper_id, status, start_date, finished_date, today) ==
  IF Matches(papers, paper_id) = {}
  THEN [outcome |-> "not found", papers |-> papers]
  ELSE IF status \notin ValidStatuses
  THEN [outcome |-> "invalid status", papers |-> papers]
  ELSE LET i == FirstMatch(papers, paper_id)
       IN  [outcome |-> "updated",
            papers |->
              [papers EXCEPT ![i].progress =
                 ApplyStatus(@, status, start_date, finished_date, today)]]

\* -------------------------------------------------------------- list_papers

\* What list prints for one paper.
Bundle(paper) ==
  LET progress == IF "progress" \in DOMAIN paper THEN paper["progress"]
                  ELSE [status |-> "not started"]
      b == [msg |-> "paper",
            id |-> Get(paper, "id"),
            title |-> Get(paper, "title"),
            status |-> IF "status" \in DOMAIN progress THEN progress["status"]
                       ELSE "not started",
            start_date |-> Get(progress, "start_date"),
            finished_date |-> Get(progress, "finished_date")]
  IN  IF "parent_title" \in DOMAIN paper
      THEN Put(b, "related_to", paper["parent_title"])
      ELSE b

\* The test of the filter turned around: the papers that match are skipped.
Listed_Inverted(paper, status_filter) ==
  ~Truthy(status_filter) \/ Lower(Bundle(paper).status) # status_filter

\* Whether the loop prints the paper under the resolved filter.
Listed(paper, status_filter) ==
  ~Truthy(status_filter) \/ Lower(Bundle(paper).status) = status_filter

ListOutput(papers, status_filter) ==
  LET resolved == IF Truthy(status_filter) THEN ResolveStatus(status_filter)
                  ELSE status_filter
      IsListed(paper) == Listed(paper, resolved)
      shown == SelectSeq(papers, IsListed)
  IN  [i \in 1..Len(shown) |-> Bundle(shown[i])]
      \o (IF Len(shown) = 0 THEN <<[msg |-> "no papers found"]>> ELSE <<>>)

\* ----------------------------------------------------------- download_paper

\* What download reports; ok is whether the HTTP transfer succeeds.
DownloadOutput(papers, paper_id, ok) ==
  IF Matches(papers, paper_id) = {}
  THEN <<[msg |-> "not found"]>>
  ELSE LET paper == papers[FirstMatch(papers, paper_id)]
           link == Get(paper, "link")
           filename == sanitize_filename(paper["title"])
                       \o <<".", "p", "d", "f">>
       IN  IF ~Truthy(link)
           THEN <<[msg |-> "no link"]>>
           ELSE <<[msg |-> "downloading", title |-> paper["title"], link |-> link],
                  IF ok THEN [msg |-> "saved", filename |-> filename]
                  ELSE [msg |-> "download error"]>>

\* ------------------------------------------------------------ raw catalogs

\* An entry of papers.yml with the keys it carries.
Entry(title, link, id) ==
  LET e1 == [title |-> title]
      e2 == IF link = Absent THEN e1 ELSE Put(e1, "link", link)
  IN  IF id = NoId THEN e2 ELSE Put(e2, "id", id)

\* The lists of exactly k entries.
EntryLists(k, titles, links, ids) ==
  [1..k -> {Entry(t, l, i) : t \in titles, l \in links, i \in ids}]

\* The top-level entries that flatten to exactly 1 + k records.  An entry
\* that flattens to itself alone has no "related" key or, when plain is
\* FALSE, an empty list or a value that is not a list.
TopEntries(k, titles, links, ids, plain) ==
  LET heads == {Entry(t, l, i) : t \in titles, l \in links, i \in ids}
      lists == {RelatedList(r) : r \in EntryLists(k, titles, {Absent}, ids)}
      rels == IF k > 0 THEN lists
              ELSE IF plain THEN {} ELSE lists \cup {NotAList}
  IN  {Put(h, "related", r) : h \in heads, r \in rels}
      \cup (IF k = 0 THEN heads ELSE {})

\* The catalogs that flatten to at most n records.
RECURSIVE Catalogs(_, _, _, _, _)
Catalogs(n, titles, links, ids, plain) ==
  {<<>>} \cup
  UNION {{<<e>> \o c : e \in TopEntries(k, titles, links, ids, plain),
                       c \in Catalogs(n - 1 - k, titles, links, ids, plain)} :
           k \in 0..(n - 1)}

\* The catalogs of the command runs: every shape of one to MaxPapers
\* records, one title, links on the top-level entries, no id supplied.
CommandCatalogs ==
  Catalogs(MaxPapers, {<<"A", " ", "b">>}, Links, {NoId}, TRUE) \ {<<>>}

\* The catalogs of the bootstrap runs: every shape of at most MaxBootPapers
\* records, with or without a "related" key, with and without ids.
BootCatalogs ==
  Catalogs(MaxBootPapers, Titles, {Absent}, PreIds \cup {NoId}, FALSE)

\* The ids a command may name: every id of a working set, and one beyond.
CommandIds == 1..(MaxPapers + 1)

ListFilters == {None, "", "ns", "IP", "d", "read", "done"}

\* ------------------------------------------------------------------- state

VARIABLES
  raw,    \* papers.yml: the raw catalog
  file,   \* papers_progress.yml: the persisted working set
  pre,    \* papers_progress.yml as the last command found it
  last,   \* the last command and its arguments
  out,    \* what the last command printed
  wrote,  \* whether the last command wrote papers_progress.yml
  procs   \* the runs under way at the same time, each between its
          \* load_papers() and its save_papers()

vars == <<raw, file, pre, last, out, wrote, procs>>

\* No two runs overlap.
NoProcs == <<>>

Command(cmd, id, status, start_date, finished_date) ==
  [cmd |-> cmd, id |-> id, status |-> status,
   start_date |-> start_date, finished_date |-> finished_date]

NoCommand == Command("none", NoId, None, None, None)

Init ==
  /\ raw \in CommandCatalogs
  /\ file = NoFile
  /\ pre = NoFile
  /\ last = NoCommand
  /\ out = <<>>
  /\ wrote = FALSE
  /\ procs = NoProcs

\* ---------------------------------------------------------------- commands

\* No run of the program is under way.
Idle == last = NoCommand

\* init without its guard: the working set is derived again over an
\* existing file.
InitPapers_Overwrites ==
  /\ Idle
  /\ pre' = file
  /\ last' = Command("init", NoId, None, None, None)
  /\ file' = FileOf(Dump(Bootstrap(raw)))
  /\ out' = <<[msg |-> IF file.exists THEN "already exists" ELSE "initialized"]>>
  /\ wrote' = TRUE
  /\ UNCHANGED <<raw, procs>>

\* init
InitPapers ==
  /\ Idle
  /\ pre' = file
  /\ last' = Command("init", NoId, None, None, None)
  /\ IF file.exists
     THEN /\ out' = <<[msg |-> "already exists"]>>
          /\ file' = file
          /\ wrote' = FALSE
     ELSE /\ file' = FileOf(Dump(Bootstrap(raw)))
          /\ out' = <<[msg |-> "initialized"]>>
          /\ wrote' = TRUE
  /\ UNCHANGED <<raw, procs>>

\* reset
ResetPapers ==
  LET loaded == load_papers(file, raw)
      papers == ResetProgress(loaded.papers)
  IN  /\ Idle
      /\ pre' = file
      /\ last' = Command("reset", NoId, None, None, None)
      /\ file' = FileOf(Dump(papers))
      /\ out' = <<[msg |-> "reset"]>>
      /\ wrote' = TRUE
      /\ UNCHANGED <<raw, procs>>

\* set --id paper_id --status status [--start_date ...] [--finished_date ...]
SetPaperStatus(paper_id, status, start_date, finished_date) ==
  LET loaded == load_papers(file, raw)
      r == SetStatusLoop(loaded.papers, paper_id, ResolveStatus(status),
                         start_date, finished_date, Today)
  IN  /\ Idle
      /\ pre' = file
      /\ last' = Command("set", paper_id, status, start_date, finished_date)
      /\ out' = <<[msg |-> r.outcome]>>
      /\ IF r.outcome = "updated"
         THEN /\ file' = FileOf(Dump(r.papers))
              /\ wrote' = TRUE
         ELSE /\ file' = loaded.file
              /\ wrote' = loaded.saved
      /\ UNCHANGED <<raw, procs>>

\* list ending with save_papers(papers), as the mutating commands do.
ListPapers_Saves(status_filter) ==
  LET loaded == load_papers(file, raw)
  IN  /\ Idle
      /\ pre' = file
      /\ last' = Command("list", NoId, status_filter, None, None)
      /\ out' = ListOutput(loaded.papers, status_filter)
      /\ file' = FileOf(Dump(loaded.papers))
      /\ wrote' = TRUE
      /\ UNCHANGED <<raw, procs>>

\* list [--status status_filter]
ListPapers(status_filter) ==
  LET loaded == load_papers(file, raw)
  IN  /\ Idle
      /\ pre' = file
      /\ last' = Command("list", NoId, status_filter, None, None)
      /\ out' = ListOutput(loaded.papers, status_filter)
      /\ file' = loaded.file
      /\ wrote' = loaded.saved
      /\ UNCHANGED <<raw, procs>>

\* download --id paper_id
DownloadPaper(paper_id, ok) ==
  LET loaded == load_papers(file, raw)
  IN  /\ Idle
      /\ pre' = file
      /\ last' = Command("download", paper_id, None, None, None)
      /\ out' = DownloadOutput(loaded.papers, paper_id, ok)
      /\ file' = loaded.file
      /\ wrote' = loaded.saved
      /\ UNCHANGED <<raw, procs>>

\* main() returns and the process ends: what the run printed is gone,
\* the two files stay.
Exit ==
  /\ ~Idle
  /\ last' = NoCommand
  /\ pre' = NoFile
  /\ out' = <<>>
  /\ wrote' = FALSE
  /\ UNCHANGED <<raw, file, procs>>

\* main() on "set": set_paper_status with the arguments argparse parsed.
SetCommand ==
  /\ Idle
  /\ \E paper_id \in CommandIds, status \in StatusInputs,
        start_date \in StartDates, finished_date \in FinishedDates :
       SetPaperStatus(paper_id, status, start_date, finished_date)

Next ==
  \/ InitPapers
  \/ ResetPapers
  \/ SetCommand
  \/ \E status_filter \in ListFilters : ListPapers(status_filter)
  \/ \E paper_id \in CommandIds, ok \in BOOLEAN : DownloadPaper(paper_id, ok)
  \/ Exit

Spec == Init /\ [][Next]_vars

\* The bootstrap runs: the commands that load or create the working set
\* without changing progress, over every bootstrap catalog.
InitBoot ==
  /\ raw \in BootCatalogs
  /\ file = NoFile
  /\ pre = NoFile
  /\ last = NoCommand
  /\ out = <<>>
  /\ wrote = FALSE
  /\ procs = NoProcs

NextBoot ==
  \/ InitPapers
  \/ ResetPapers
  \/ \E status_filter \in {None, "ns"} : ListPapers(status_filter)
  \/ Exit

SpecBoot == InitBoot /\ [][NextBoot]_vars

\* papers.yml is edited between two runs: the program reads it and never
\* writes it.
EditCatalog ==
  /\ Idle
  /\ raw' \in CommandCatalogs \ {raw}
  /\ UNCHANGED <<file, pre, last, out, wrote, procs>>

\* The statuses of the runs over an edited catalog.
EditStatuses == {"ip", "d", "done"}

\* The runs over a raw catalog that is edited between them.
NextEdit ==
  \/ InitPapers
  \/ ResetPapers
  \/ \E paper_id \in CommandIds, status \in EditStatuses :
       SetPaperStatus(paper_id, status, None, None)
  \/ ListPapers(None)
  \/ \E paper_id \in CommandIds, ok \in BOOLEAN : DownloadPaper(paper_id, ok)
  \/ Exit
  \/ EditCatalog

SpecEdit == Init /\ [][NextEdit]_vars

\* ------------------------------------------------------ download by title

\* The characters of the downloaded titles: letters of both cases, a
\* digit, a letter outside ASCII, the space and the tab, punctuation the
\* pattern keeps and punctuation it removes.
TitleChars == {"A", "b", "2", "é", " ", "\t", "_", "-", ".", ":"}

\* The titles of at most MaxTitleLen characters.
DownloadTitles == UNION {[1..n -> TitleChars] : n \in 0..MaxTitleLen}

\* A catalog of one paper with a link, no working set persisted yet.
InitDownload ==
  /\ \E title \in DownloadTitles, link \in Links :
       raw = <<Entry(title, link, NoId)>>
  /\ file = NoFile
  /\ pre = NoFile
  /\ last = NoCommand
  /\ out = <<>>
  /\ wrote = FALSE
  /\ procs = NoProcs

\* download --id 1, the transfer succeeding or not.
NextDownload ==
  \/ \E ok \in BOOLEAN : DownloadPaper(1, ok)
  \/ Exit

SpecDownload == InitDownload /\ [][NextDownload]_vars

\* ------------------------------------------------ two set commands racing

\* progress.yml right after open(PROGRESS_FILE, "w"): there, no bytes.
TruncatedFile == [exists |-> TRUE, doc |-> <<>>, bytes |-> "none"]

\* progress.yml after a document was written from offset 0 over a longer
\* one: the document, then what is left of the longer one's bytes.
TornFile(doc) == [exists |-> TRUE, doc |-> doc, bytes |-> "leftover"]

\* The file holds one whole document, or is missing.
Whole(f) == DOMAIN f = {"exists", "doc"}

\* The two processes.
Procs == {1, 2}

\* The status arguments of the racing commands.
RaceStatuses == {"ip", "d"}

\* A process that has parsed its arguments and read nothing yet.
NewProc ==
  [pc |-> "start", id |-> NoId, status |-> None, loaded |-> <<>>,
   papers |-> <<>>, out |-> None,
   loadedAt |-> 0, openedAt |-> 0, wroteAt |-> 0]

\* What yaml.safe_load can give load_papers for the file: its document;
\* nothing for a file with no bytes, and the loop over None raises; for a
\* document followed by leftover bytes, the document or a parse error.
RaceReads(f, catalog) ==
  IF Whole(f)
  THEN {[ok |-> TRUE, papers |-> load_papers(f, catalog).papers]}
  ELSE IF f = TruncatedFile
       THEN {[ok |-> FALSE, papers |-> <<>>]}
       ELSE {[ok |-> FALSE, papers |-> <<>>],
             [ok |-> TRUE, papers |-> Parse(f.doc)]}

\* The position of a step among the steps of both processes.
Stamps == {procs[q].loadedAt : q \in Procs} \cup
          {procs[q].openedAt : q \in Procs} \cup
          {procs[q].wroteAt : q \in Procs}
Clock == Cardinality(Stamps \ {0}) + 1

\* Process p opening the file for writing after reading it again and
\* applying its update to what it holds by then.
RaceOpen_Reloads(p) ==
  LET current == IF Whole(file) THEN Parse(file.doc) ELSE procs[p].loaded
      r == SetStatusLoop(current, procs[p].id, ResolveStatus(procs[p].status),
                         None, None, Today)
  IN  /\ procs[p].pc = "loaded"
      /\ file' = TruncatedFile
      /\ procs' = [procs EXCEPT ![p].pc = "opened", ![p].openedAt = Clock,
                                ![p].papers = r.papers]
      /\ UNCHANGED <<raw, pre, last, out, wrote>>

\* Process p running set up to its save: load_papers() and the loop over
\* the papers it returned, in the memory of p.
RaceLoad(p, paper_id, status) ==
  /\ procs[p].pc = "start"
  /\ \E read \in RaceReads(file, raw) :
       LET r == SetStatusLoop(read.papers, paper_id, ResolveStatus(status),
                              None, None, Today)
       IN  procs' = [procs EXCEPT ![p] =
             [pc |-> IF ~read.ok THEN "crashed"
                     ELSE IF r.outcome = "updated" THEN "loaded" ELSE "done",
              id |-> paper_id, status |-> status,
              loaded |-> read.papers,
              papers |-> IF read.ok THEN r.papers ELSE <<>>,
              out |-> IF read.ok THEN r.outcome ELSE "error",
              loadedAt |-> Clock, openedAt |-> 0, wroteAt |-> 0]]
  /\ UNCHANGED <<raw, file, pre, last, out, wrote>>

\* Process p entering save_papers(): open(PROGRESS_FILE, "w") truncates
\* the file.
RaceOpen(p) ==
  /\ procs[p].pc = "loaded"
  /\ file' = TruncatedFile
  /\ procs' = [procs EXCEPT ![p].pc = "opened", ![p].openedAt = Clock]
  /\ UNCHANGED <<raw, pre, last, out, wrote>>

\* Process p leaving save_papers(): yaml.dump() and the close write its
\* document from offset 0. Over bytes another process wrote since p
\* opened the file, the longer of the two documents decides whether
\* bytes of the other one are left behind it.
RaceWrite(p) ==
  /\ procs[p].pc = "opened"
  /\ IF file = TruncatedFile
     THEN file' = FileOf(Dump(procs[p].papers))
     ELSE file' \in {FileOf(Dump(procs[p].papers)),
                     TornFile(Dump(procs[p].papers))}
  /\ procs' = [procs EXCEPT ![p].pc = "done", ![p].wroteAt = Clock]
  /\ UNCHANGED <<raw, pre, last, out, wrote>>

\* Two set commands started on a working set that is persisted, no
\* progress made yet.
InitRace ==
  /\ raw \in CommandCatalogs
  /\ file = FileOf(Dump(Bootstrap(raw)))
  /\ pre = NoFile
  /\ last = NoCommand
  /\ out = <<>>
  /\ wrote = FALSE
  /\ procs = [p \in Procs |-> NewProc]

NextRace ==
  \E p \in Procs :
    \/ \E paper_id \in CommandIds, status \in RaceStatuses :
         RaceLoad(p, paper_id, status)
    \/ RaceOpen(p)
    \/ RaceWrite(p)

SpecRace == InitRace /\ [][NextRace]_vars

\* The working set the persisted file holds.
WorkingSet == Parse(file.doc)

\* ------------------------------------------------- what a command worked on

\* The working set the last command's load_papers() returned: the persisted
\* one when the file existed, the bootstrapped one otherwise.
Loaded == IF pre.exists THEN Parse(pre.doc) ELSE Bootstrap(raw)

Said(msg) == out = <<[msg |-> msg]>>

\* What each status a set may be given resolves to.
Resolved == [s \in StatusInputs \cup EditStatuses |-> ResolveStatus(s)]

\* The last command was a set whose status resolved to status.
SetWith(status) == last.cmd = "set" /\ Resolved[last.status] = status

\* The last command was a set with a status outside the closed set.
SetInvalid == last.cmd = "set" /\ Resolved[last.status] \notin ValidStatuses

\* The last command named an id that a loaded record carries.
IdPresent ==
  LET papers == Loaded
  IN  \E i \in 1..Len(papers) : papers[i].id = last.id

\* The record a set or download command works on: the first with the id.
Target ==
  LET papers == Loaded
  IN  CHOOSE i \in 1..Len(papers) :
        /\ papers[i].id = last.id
        /\ \A j \in 1..(i - 1) : papers[j].id # last.id

ProgressBefore == Loaded[Target].progress
ProgressAfter == WorkingSet[Target].progress

\* ------------------------------------------------------------------ claims

\* C1: in every persisted working set, every record has a finished_date
\* only if its status is "read", and has a start_date whenever its status is
\* "in progress" or "read".
C1_DateStatusInvariant ==
  file.exists =>
    LET papers == WorkingSet
    IN  \A i \in 1..Len(papers) :
          LET p == papers[i].progress
          IN  /\ p.finished_date # None => p.status = "read"
              /\ p.status \in {"in progress", "read"} => p.start_date # None

\* C1 witness: a record that was "read" with both dates has just been set
\* back to "in progress", beside a record that is not started.
C1_Witness ==
  /\ SetWith("in progress") /\ Said("updated")
  /\ ProgressBefore.status = "read"
  /\ ProgressBefore.finished_date # None
  /\ \E i \in 1..Len(WorkingSet) : WorkingSet[i].progress.status = "not started"

\* C2 as stated: set to "read" with a start-date override stores the
\* override whatever the prior start_date; without an override today is
\* stored only when start_date was unset.
C2_OverrideAlwaysStored ==
  (SetWith("read") /\ Said("updated")) =>
    ProgressAfter.start_date =
      IF Truthy(last.start_date) THEN last.start_date
      ELSE IF Truthy(ProgressBefore.start_date) THEN ProgressBefore.start_date
      ELSE Today

\* C2 amended: set to "read" keeps a start_date that is already set, with
\* or without an override; when start_date is unset it stores the override
\* if one is given and today's date otherwise.
C2_StartDateSetOnlyIfUnset ==
  (SetWith("read") /\ Said("updated")) =>
    ProgressAfter.start_date =
      IF Truthy(ProgressBefore.start_date) THEN ProgressBefore.start_date
      ELSE IF Truthy(last.start_date) THEN last.start_date
      ELSE Today

\* C2 witness: set to "read" with an override on a record whose start_date
\* was set to another date; the old start_date is still there.
C2_Witness ==
  /\ SetWith("read") /\ Said("updated")
  /\ Truthy(last.start_date)
  /\ Truthy(ProgressBefore.start_date)
  /\ ProgressBefore.start_date # last.start_date
  /\ ProgressAfter.start_date = ProgressBefore.start_date

\* C3 as stated: a set with a status outside the closed set leaves the
\* persisted working set as it was, the missing file included, and writes
\* nothing.
C3_InvalidStatusNoWrite == SetInvalid => (file = pre /\ ~wrote)

\* C3 amended: a set with a status outside the closed set leaves an
\* existing persisted working set as it was and writes nothing, whether or
\* not the id matches; when no persisted working set exists yet, the load
\* the command starts with bootstraps it from the raw catalog and persists
\* it, every record not started.
C3_InvalidStatusOnlyBootstraps ==
  SetInvalid =>
    IF pre.exists
    THEN file = pre /\ ~wrote
    ELSE /\ file = FileOf(Dump(Bootstrap(raw)))
         /\ wrote
         /\ \A i \in 1..Len(WorkingSet) : WorkingSet[i].progress = DefaultProgress

\* C3 witness: a set with an invalid status on the id of a record that has
\* progress, the file unchanged.
C3_Witness ==
  /\ SetInvalid /\ pre.exists /\ IdPresent
  /\ ProgressBefore.status = "read"
  /\ file = pre

\* C4 as stated: a set with a status outside the closed set reports the
\* invalid status, whether or not the id is there.
C4_InvalidStatusReportedFirst == SetInvalid => Said("invalid status")

\* C4 amended: the id is looked up before the status is validated: a set
\* with a status outside the closed set reports the invalid status when a
\* record carries the id, and not-found when none does.
C4_InvalidStatusReportedIfFound ==
  SetInvalid =>
    IF IdPresent THEN Said("invalid status") ELSE Said("not found")

\* C4 witness: an invalid status on an id no record carries is reported as
\* not found.
C4_Witness == SetInvalid /\ ~IdPresent /\ Len(Loaded) > 0 /\ Said("not found")

\* C5 as stated: list leaves the persisted working set as it was, the
\* missing file included, and writes nothing.
C5_ListNoPersistence == last.cmd = "list" => (file = pre /\ ~wrote)

\* C5 amended: list leaves an existing persisted working set as it was and
\* writes nothing; when no persisted working set exists yet, the load it
\* starts with bootstraps it from the raw catalog and persists it.
C5_ListOnlyBootstraps ==
  last.cmd = "list" =>
    IF pre.exists
    THEN file = pre /\ ~wrote
    ELSE file = FileOf(Dump(Bootstrap(raw))) /\ wrote

\* C5 witness: a filtered list of a working set with progress printed a
\* paper and left the file as it was.
C5_Witness ==
  /\ last.cmd = "list" /\ Truthy(last.status) /\ pre.exists
  /\ \E i \in 1..Len(Loaded) : Loaded[i].progress.status = "read"
  /\ \E i \in 1..Len(out) : out[i].msg = "paper"
  /\ file = pre

\* C6: set to "in progress" stores the start-date override, or today's date
\* when none is given, and clears finished_date, whatever the record's
\* progress was.
C6_InProgressDates ==
  (SetWith("in progress") /\ Said("updated")) =>
    ProgressAfter =
      [status |-> "in progress",
       start_date |-> IF Truthy(last.start_date) THEN last.start_date ELSE Today,
       finished_date |-> None]

\* C6 witness: a record that was "read" with a finished_date is set to
\* "in progress": finished_date is gone and start_date is replaced.
C6_Witness ==
  /\ SetWith("in progress") /\ Said("updated")
  /\ ProgressBefore.status = "read"
  /\ ProgressBefore.finished_date # None
  /\ ProgressAfter.finished_date = None
  /\ ProgressAfter.start_date # ProgressBefore.start_date

\* C7: set to "read" with no start-date override on a record whose
\* start_date is set keeps that start_date and stores the finished-date
\* override, or today's date when none is given.
C7_ReadKeepsStartDate ==
  (/\ SetWith("read") /\ Said("updated")
   /\ ~Truthy(last.start_date)
   /\ Truthy(ProgressBefore.start_date)) =>
    ProgressAfter =
      [status |-> "read",
       start_date |-> ProgressBefore.start_date,
       finished_date |->
         IF Truthy(last.finished_date) THEN last.finished_date ELSE Today]

\* C7 witness: a record "in progress" since a date that is not today is set
\* to "read" with no override and keeps that date.
C7_Witness ==
  /\ SetWith("read") /\ Said("updated")
  /\ ~Truthy(last.start_date) /\ ~Truthy(last.finished_date)
  /\ ProgressBefore.status = "in progress"
  /\ ProgressBefore.start_date # Today
  /\ ProgressAfter.start_date = ProgressBefore.start_date
  /\ ProgressAfter.finished_date = Today

\* C8: init on an existing persisted working set changes nothing in it and
\* only reports that it already exists.
C8_InitGuard ==
  (last.cmd = "init" /\ pre.exists) =>
    file = pre /\ ~wrote /\ Said("already exists")

\* C8 witness: init found a working set with a record that is not in its
\* default progress, and left it.
C8_Witness ==
  /\ last.cmd = "init" /\ pre.exists
  /\ \E i \in 1..Len(Loaded) : Loaded[i].progress # DefaultProgress
  /\ WorkingSet = Loaded

\* C10: reset gives every record the default progress and leaves the number
\* and order of the records and every other key of each record as loaded.
C10_ResetFrame ==
  last.cmd = "reset" =>
    /\ Len(WorkingSet) = Len(Loaded)
    /\ \A i \in 1..Len(Loaded) :
         /\ WorkingSet[i].progress = DefaultProgress
         /\ DOMAIN WorkingSet[i] = DOMAIN Loaded[i]
         /\ \A k \in DOMAIN Loaded[i] \ {"progress"} :
              WorkingSet[i][k] = Loaded[i][k]

\* C10 witness: reset of a working set with a read record and a related
\* record.
C10_Witness ==
  /\ last.cmd = "reset" /\ pre.exists
  /\ \E i \in 1..Len(Loaded) : Loaded[i].progress.finished_date # None
  /\ \E i \in 1..Len(Loaded) : "parent_title" \in DOMAIN Loaded[i]
  /\ \A i \in 1..Len(WorkingSet) : WorkingSet[i].progress = DefaultProgress

\* No entry of the raw catalog, top-level or related, carries an id.
RawIdFree ==
  \A i \in 1..Len(raw) :
    /\ "id" \notin DOMAIN raw[i]
    /\ "related" \in DOMAIN raw[i] =>
         \A j \in 1..Len(raw[i]["related"].items) :
           "id" \notin DOMAIN raw[i]["related"].items[j]

\* The number of records of the raw catalog: its top-level entries and the
\* entries of their "related" lists.
RECURSIVE RecordCount(_)
RecordCount(catalog) ==
  IF catalog = <<>> THEN 0
  ELSE 1 + (IF "related" \in DOMAIN Head(catalog)
            THEN Len(Head(catalog)["related"].items) ELSE 0)
         + RecordCount(Tail(catalog))

\* C9: after the bootstrap of a raw catalog that supplies no id, the ids of
\* the persisted working set are 1..M in flattening order, M the number of
\* records of the catalog, and every later command loads and lists the
\* same ids and leaves them in the file.
C9_IdsAssignedAndStable ==
  (RawIdFree /\ file.exists) =>
    /\ Len(WorkingSet) = RecordCount(raw)
    /\ \A i \in 1..Len(WorkingSet) :
         /\ WorkingSet[i].id = i
         /\ WorkingSet[i].title = flatten_papers(raw)[i].title
    /\ pre.exists => \A i \in 1..Len(Loaded) : Loaded[i].id = WorkingSet[i].id
    /\ (last.cmd = "list" /\ ~Truthy(last.status) /\ RecordCount(raw) > 0) =>
         /\ Len(out) = RecordCount(raw)
         /\ \A i \in 1..Len(out) : out[i].id = i

\* C9 witness: a later list of a persisted working set with a related
\* record, bootstrapped from a catalog without ids.
C9_Witness ==
  /\ RawIdFree /\ pre.exists /\ last.cmd = "list" /\ ~Truthy(last.status)
  /\ Len(Loaded) >= 2
  /\ \E i \in 1..Len(Loaded) : "parent_title" \in DOMAIN Loaded[i]
  /\ \A i \in 1..Len(out) : out[i].id = i

\* C11: a set that names an id no loaded record carries reports not-found
\* and leaves every record of the persisted working set equal to the record
\* that load_papers() returned; an existing file is not written.
C11_NotFoundLeavesLoaded ==
  (last.cmd = "set" /\ ~IdPresent) =>
    LET after == WorkingSet
        before == Loaded
    IN  /\ Said("not found")
        /\ file.exists
        /\ Len(after) = Len(before)
        /\ \A i \in 1..Len(before) : after[i] = before[i]
        /\ pre.exists => (file = pre /\ ~wrote)

\* C11 witness: a set with a valid status and dates on an absent id, over a
\* working set with progress.
C11_Witness ==
  /\ last.cmd = "set" /\ ~IdPresent /\ pre.exists
  /\ ResolveStatus(last.status) = "read" /\ Truthy(last.start_date)
  /\ \E i \in 1..Len(Loaded) : Loaded[i].progress.status = "in progress"
  /\ Said("not found")

\* The spellings of each canonical status.
Spellings ==
  [c \in ValidStatuses |->
     CASE c = "not started" -> {"ns", "NS", "not started"}
       [] c = "in progress" -> {"ip", "IP", "in progress"}
       [] c = "read" -> {"d", "D", "read"}]

\* C12: a set given any spelling of a status reports and persists what the
\* loop gives for the canonical status on the same working set, id and
\* dates: the spellings of one status give identical working sets.
C12_AliasEquivalence ==
  last.cmd = "set" =>
    \A c \in ValidStatuses :
      last.status \in Spellings[c] =>
        LET canonical == SetStatusLoop(Loaded, last.id, c, last.start_date,
                                       last.finished_date, Today)
        IN  /\ Said(canonical.outcome)
            /\ WorkingSet = canonical.papers

\* C12 witness: a set given "IP" moved a record to "in progress".
C12_Witness ==
  /\ last.cmd = "set" /\ last.status = "IP" /\ Said("updated")
  /\ ProgressBefore.status = "read"
  /\ ProgressAfter.status = "in progress"

IsReadPaper(paper) == paper.progress.status = "read"
IsPaperLine(line) == line.msg = "paper"

\* C13: list with a filter that resolves to "read" prints the loaded
\* records whose status is "read", each once, in working-set order, and no
\* other; it prints the no-results message exactly when it prints no record.
C13_FilterCorrect ==
  (last.cmd = "list" /\ last.status \in {"d", "read"}) =>
    LET reads == SelectSeq(Loaded, IsReadPaper)
        shown == SelectSeq(out, IsPaperLine)
    IN  /\ Len(shown) = Len(reads)
        /\ \A i \in 1..Len(reads) :
             /\ shown[i].id = reads[i].id
             /\ shown[i].title = reads[i].title
             /\ shown[i].status = "read"
             /\ shown[i].start_date = reads[i].progress.start_date
             /\ shown[i].finished_date = reads[i].progress.finished_date
        /\ out = shown \o (IF Len(shown) = 0
                           THEN <<[msg |-> "no papers found"]>> ELSE <<>>)

\* C13 witness: list with the filter "d" over a read record and a record
\* that is not read printed the read one alone.
C13_Witness ==
  /\ last.cmd = "list" /\ last.status = "d"
  /\ \E i, j \in 1..Len(Loaded) :
       /\ Loaded[i].progress.status = "read"
       /\ Loaded[j].progress.status = "in progress"
  /\ Len(out) = 1
  /\ out[1].msg = "paper"

\* C14: the status of every record of every persisted working set is one of
\* the three canonical values.
C14_StatusClosedSet ==
  file.exists =>
    LET papers == WorkingSet
    IN  \A i \in 1..Len(papers) : papers[i].progress.status \in ValidStatuses

\* C14 witness: a set with a status outside the closed set named a record
\* that is in progress.
C14_Witness ==
  /\ SetInvalid /\ IdPresent
  /\ ProgressBefore.status = "in progress"
  /\ ProgressAfter.status = "in progress"

\* C17: a set that updates changes the progress of the one record it names:
\* the number and order of the records, every other record, and every other
\* key of the record it names are as loaded.
C17_SetFrame ==
  (last.cmd = "set" /\ Said("updated")) =>
    LET after == WorkingSet
        before == Loaded
        target == Target
    IN  /\ Len(after) = Len(before)
        /\ before[target].id = last.id
        /\ \A i \in 1..Len(before) :
             /\ i # target => after[i] = before[i]
             /\ DOMAIN after[i] = DOMAIN before[i]
             /\ \A k \in DOMAIN before[i] \ {"progress"} :
                  after[i][k] = before[i][k]

\* C17 witness: a set changed the second record of a working set whose
\* first record has progress of its own.
C17_Witness ==
  /\ last.cmd = "set" /\ Said("updated")
  /\ Len(Loaded) >= 2 /\ Target = 2
  /\ Loaded[1].progress.status = "read"
  /\ ProgressAfter # ProgressBefore
  /\ WorkingSet[1] = Loaded[1]

\* The ids the records of the raw catalog supply are pairwise distinct.
SuppliedIdsDistinct ==
  LET flat == flatten_papers(raw)
  IN  \A i, j \in 1..Len(flat) :
        (i # j /\ "id" \in DOMAIN flat[i] /\ "id" \in DOMAIN flat[j]) =>
          flat[i].id # flat[j].id

\* C15 as stated: bootstrapped from a raw catalog whose supplied ids are
\* pairwise distinct, every record of the working set has an id and the
\* ids are pairwise distinct.
C15_IdsUnique ==
  (file.exists /\ SuppliedIdsDistinct) =>
    /\ \A i \in 1..Len(WorkingSet) : "id" \in DOMAIN WorkingSet[i]
    /\ \A i, j \in 1..Len(WorkingSet) :
         i # j => WorkingSet[i].id # WorkingSet[j].id

\* The number of related entries a top-level entry carries.
RelatedCount(entry) ==
  IF "related" \in DOMAIN entry /\ entry["related"].list
  THEN Len(entry["related"].items) ELSE 0

\* The number of records that come before top-level entry i.
RECURSIVE RecordsBefore(_)
RecordsBefore(i) ==
  IF i = 1 THEN 0
  ELSE RecordsBefore(i - 1) + 1 + RelatedCount(raw[i - 1])

\* C18: flatten_papers gives N + sum(k_i) records in pre-order: top-level
\* entry i stands right after the records of the entries before it, without
\* its "related" key and otherwise as in the catalog, and its related
\* entries follow it in their order, each as in the catalog plus
\* parent_title, the title of entry i.
C18_FlattenPreOrder ==
  LET flat == flatten_papers(raw)
  IN  /\ Len(flat) = RecordsBefore(Len(raw) + 1)
      /\ \A i \in 1..Len(raw) :
           LET p == RecordsBefore(i) + 1
           IN  /\ DOMAIN flat[p] = DOMAIN raw[i] \ {"related"}
               /\ \A k \in DOMAIN flat[p] : flat[p][k] = raw[i][k]
               /\ \A j \in 1..RelatedCount(raw[i]) :
                    LET r == raw[i]["related"].items[j]
                    IN  /\ DOMAIN flat[p + j] = DOMAIN r \cup {"parent_title"}
                        /\ flat[p + j]["parent_title"] = raw[i]["title"]
                        /\ \A k \in DOMAIN r : flat[p + j][k] = r[k]

\* C18 witness: a working set bootstrapped from a catalog whose first entry
\* has a related entry under another title and is followed by a second
\* top-level entry.
C18_Witness ==
  /\ file.exists /\ last.cmd = "init"
  /\ Len(raw) = 2
  /\ RelatedCount(raw[1]) = 1
  /\ raw[1]["related"].items[1]["title"] # raw[1]["title"]
  /\ Len(WorkingSet) = 3
  /\ WorkingSet[2]["parent_title"] = raw[1]["title"]
  /\ "parent_title" \notin DOMAIN WorkingSet[3]

\* The records of a working set without their progress.
Identity(papers) == [i \in 1..Len(papers) |-> Del(papers[i], "progress")]

\* C16: once the persisted working set exists, no step, whatever the raw
\* catalog has become, removes it or changes the number, the order, the
\* ids or any key but progress of its records: it is not derived again.
C16_BootstrapOnce ==
  [][file.exists =>
       /\ file'.exists
       /\ Identity(Parse(file'.doc)) = Identity(Parse(file.doc))]_vars

\* C16 witness: a reset loaded and rewrote a working set whose raw catalog
\* has since been edited to another number of records.
C16_Witness ==
  /\ last.cmd = "reset" /\ pre.exists
  /\ Len(Bootstrap(raw)) # Len(WorkingSet)
  /\ Identity(WorkingSet) = Identity(Loaded)

\* Both processes have saved an update, each of another id.
BothSaved ==
  /\ \A p \in Procs : procs[p].pc = "done" /\ procs[p].out = "updated"
  /\ procs[1].id # procs[2].id

\* Both processes loaded before either began to persist.
BothLoadedFirst ==
  \A p, q \in Procs : procs[p].loadedAt < procs[q].openedAt

\* w persisted last, after the other process had finished persisting.
PersistedLast(w) ==
  \A q \in Procs \ {w} : procs[q].wroteAt < procs[w].openedAt

\* The record of process p's paper in a working set.
RecordOf(papers, p) == papers[FirstMatch(papers, procs[p].id)]

\* C19: when two set commands on different ids both load before either
\* persists and then persist one after the other, the file ends as
\* exactly the working set the last one wrote: what that process loaded
\* with its own paper updated, the other process's paper as it was
\* loaded, its update gone.
C19_LastWriterWins ==
  \A w \in Procs :
    (procs # NoProcs /\ BothSaved /\ BothLoadedFirst /\ PersistedLast(w)) =>
      /\ file = FileOf(Dump(procs[w].papers))
      /\ \A q \in Procs \ {w} :
           /\ RecordOf(WorkingSet, q) = RecordOf(procs[w].loaded, q)
           /\ RecordOf(WorkingSet, q) # RecordOf(procs[q].papers, q)

\* C19 witness: process 1 and process 2 both loaded, process 1 persisted,
\* then process 2 did, and the file is what process 2 wrote.
C19_Witness ==
  /\ procs # NoProcs /\ BothSaved /\ BothLoadedFirst /\ PersistedLast(2)
  /\ file = FileOf(Dump(procs[2].papers))
  /\ RecordOf(WorkingSet, 1)["progress"] = DefaultProgress

\* The download found its paper and saved the PDF.
Saved == last.cmd = "download" /\ Len(out) = 2 /\ out[2].msg = "saved"

\* The title of the downloaded paper and the name of the file written.
SavedTitle == Loaded[Target]["title"]
SavedName == out[2].filename

\* The ASCII letters, digits, underscore, dot and hyphen.
AsciiSafeChars == (WordChars \ {"é"}) \cup {".", "-"}
IsAsciiSafe(c) == c \in AsciiSafeChars

\* Each space an underscore, every other character as it is.
Underscored(cs) == [i \in 1..Len(cs) |-> IF cs[i] = " " THEN "_" ELSE cs[i]]

\* C20 as the specification states it: the file name is the title with
\* each space replaced by an underscore and every character outside
\* [A-Za-z0-9_.-] removed, followed by ".pdf".
C20_AsciiNoStrip ==
  Saved =>
    SavedName = SelectSeq(Underscored(SavedTitle), IsAsciiSafe)
                \o <<".", "p", "d", "f">>

\* The title between its first and its last character that is not
\* whitespace.
Inner(cs) ==
  LET solid == {i \in 1..Len(cs) : cs[i] \notin Whitespace}
  IN  IF solid = {} THEN <<>>
      ELSE SubSeq(cs, CHOOSE i \in solid : \A j \in solid : i <= j,
                      CHOOSE i \in solid : \A j \in solid : j <= i)

\* A letter or digit of any script, the underscore, the dot, the hyphen.
IsKept(c) == c \in WordChars \cup {".", "-"}

\* C20: the file name is the title with the whitespace at its two ends
\* dropped, each space left replaced by an underscore and every character
\* that is not a letter or digit of any script, an underscore, a dot or a
\* hyphen removed, no character added or changed otherwise, followed by
\* ".pdf".
C20_StripThenSanitize ==
  Saved =>
    SavedName = SelectSeq(Underscored(Inner(SavedTitle)), IsKept)
                \o <<".", "p", "d", "f">>

\* C20 witness: a PDF saved for a title that begins with a space and holds
\* a letter outside ASCII.
C20_Witness ==
  /\ Saved
  /\ SavedTitle # <<>> /\ SavedTitle[1] = " "
  /\ \E i \in 1..Len(SavedTitle) : SavedTitle[i] = "é"
  /\ \E i \in 1..Len(SavedName) : SavedName[i] = "é"

====
